---- MODULE Spec2Model ----
(***************************************************************************)
(* Model of etl.py: the load_data_to_neo4j loader and its __main__ block.  *)
(*                                                                         *)
(* One invocation of the program is one behaviour: the configuration is    *)
(* read, the loader is constructed, run() reads the CSV and drains it into *)
(* the store in batches, close() releases the driver.  The CSV reader,     *)
(* the YAML reader and the Neo4j driver are external: each of their calls  *)
(* either returns or raises, chosen nondeterministically.                  *)
(***************************************************************************)
EXTENDS Integers, Sequences, FiniteSets, Bags

\* ------------------------------------------------------------------ bounds

\* Largest number of data rows of the CSV file.
MaxRows == 5

\* Largest explicit batch_size tried besides the default one.
MaxBatch == 3

\* Largest number of invocations of the program against the same store.
MaxRuns == 2

\* batch_size=1000, the default of load_csv_to_neo4j, the one run() uses.
DefaultBatchSize == 1000

\* ------------------------------------------------------------ the inputs

\* The four fields __main__ reads from config['CREDS'].
RequiredFields == {"URI", "USERNAME", "PASSWORD", "FILE_PATH"}

\* Header row of the CSV file: the column names, in file order.
Columns == <<"id", "qty">>

\* The value tuples a data row of the file may hold (one value per column).
RowValues == {<<1, 10>>, <<2, 20>>}

\* Sequences over S of length at most n.
SeqUpTo(S, n) == UNION {[1..k -> S] : k \in 0..n}

\* What pd.read_csv finds at FILE_PATH: a readable file, no file
\* (FileNotFoundError), a file it cannot parse (ParserError), or any other
\* error.
SourceStates == {"ok", "missing", "unparsable", "other"}

\* The batch_size values load_csv_to_neo4j is called with: the default, the
\* small positive ones, and the unvalidated ones (0 and -1).
BatchSizes == ((0 - 1)..MaxBatch) \cup {DefaultBatchSize}

\* ------------------------------------------------------- pure functions

\* Position of column c in the header cols.
ColumnIndex(cols, c) == CHOOSE i \in 1..Len(cols) : cols[i] = c

\* The row converted without its last column (row[:-1].to_dict()).
to_dictDropLast(cols, tuple) ==
  [c \in {cols[i] : i \in 1..(Len(cols) - 1)} |-> tuple[ColumnIndex(cols, c)]]

\* row.to_dict(): the mapping from column name to the row's value there.
to_dict(cols, tuple) ==
  [c \in {cols[i] : i \in 1..Len(cols)} |-> tuple[ColumnIndex(cols, c)]]

\* The flush test written with > in place of >=.
BatchFullStrict(b, size) == Len(b) > size

\* The flush test guarded against a batch size that is not positive
\* (if batch_size > 0 and len(batch) >= batch_size).
BatchFullPositive(b, size) == size > 0 /\ Len(b) >= size

\* len(batch) >= batch_size, the flush test of the loop.
BatchFull(b, size) == Len(b) >= size

\* The final flush left out: rows after the last full batch are dropped.
BatchPendingNever(b) == FALSE

\* The final flush without its `if batch:` guard.
BatchPendingAlways(b) == TRUE

\* `if batch:` after the loop: the accumulator is non-empty.
BatchPending(b) == Len(b) > 0

\* FILE_PATH read leniently (config['CREDS'].get('FILE_PATH')): its absence
\* raises nothing.
ConfigErrorCredsOnly(readable, fields) ==
  ~readable \/ ~({"URI", "USERNAME", "PASSWORD"} \subseteq fields)

\* The reads of lines 100-105 raise: open()/safe_load fails, or a key of
\* config['CREDS'] is absent.
ConfigError(readable, fields) == ~readable \/ fields # RequiredFields

\* The bag of the elements of sequence s.
RECURSIVE BagOfSeq(_)
BagOfSeq(s) ==
  IF s = <<>> THEN EmptyBag ELSE BagOfSeq(Tail(s)) (+) SetToBag({Head(s)})

\* The concatenation of a sequence of sequences.
RECURSIVE Flatten(_)
Flatten(ss) == IF ss = <<>> THEN <<>> ELSE Head(ss) \o Flatten(Tail(ss))

\* ------------------------------------------------------------- the state

VARIABLES
  pc,            \* position of the program
  cfgReadable,   \* config.yaml opens and parses
  cfgFields,     \* the keys present under config['CREDS']
  source,        \* what pd.read_csv found: "unread", then a SourceStates
  fileRows,      \* the data rows of the file (of an unparsable file: the
                 \* rows before its defect)
  batch_size,    \* the batch_size argument of load_csv_to_neo4j
  driverSet,     \* self.driver is set
  filePathSet,   \* self.FILE_PATH is set
  data,          \* run()'s local `data`: <<"None">> or <<"df", rows>>
  session,       \* "none", "open" or "closed"
  opened,        \* number of driver.session() calls that returned
  idx,           \* rows of data.iterrows() consumed so far
  batch,         \* the accumulator `batch`
  ret,           \* where the write transaction in flight was issued
  txPending,     \* nodes created in the open transaction, not committed
  txFailed,      \* the open transaction was failed by the server
  txOpen,        \* a write transaction is in flight
  flushes,       \* payloads of the write_transaction calls, in call order
  cmdFailed,     \* indices of flushes whose tx.run raised
  raisedAt,      \* index of the flush whose write_transaction raised, or 0
  persisted,     \* per flush, the records of it that are committed nodes
  nodes,         \* the nodes committed to the store (a bag of records)
  log,           \* the messages printed, in order
  failures,      \* the external calls that have raised
  closeCalled,   \* loader.close() has been called
  uncaught,      \* an exception left the process
  runNo,         \* invocations completed before this one
  prior          \* the nodes of the store when this invocation began

vars == <<pc, cfgReadable, cfgFields, source, fileRows, batch_size, driverSet,
          filePathSet, data, session, opened, idx, batch, ret, txPending,
          txFailed, flushes, cmdFailed, raisedAt, persisted, nodes, log,
          failures, closeCalled, uncaught, txOpen, runNo, prior>>

inputs == <<cfgReadable, cfgFields, source, fileRows, batch_size>>
loader == <<driverSet, filePathSet>>
loopState == <<idx, batch>>
txState == <<ret, txPending, txFailed, txOpen>>
earlier == <<runNo, prior>>
history == <<flushes, cmdFailed, raisedAt, persisted>>

Init ==
  /\ pc = "config"
  /\ cfgReadable \in BOOLEAN
  /\ cfgFields \in SUBSET RequiredFields
  /\ source = "unread"
  /\ fileRows = <<>>
  /\ batch_size \in BatchSizes
  /\ driverSet = FALSE
  /\ filePathSet = FALSE
  /\ data = <<"None">>
  /\ session = "none"
  /\ opened = 0
  /\ idx = 0
  /\ batch = <<>>
  /\ ret = "none"
  /\ txPending = <<>>
  /\ txFailed = FALSE
  /\ flushes = <<>>
  /\ cmdFailed = {}
  /\ raisedAt = 0
  /\ persisted = <<>>
  /\ nodes = EmptyBag
  /\ log = <<>>
  /\ failures = {}
  /\ closeCalled = FALSE
  /\ uncaught = FALSE
  /\ txOpen = FALSE
  /\ runNo = 0
  /\ prior = EmptyBag

\* ---------------------------------------------------------------- __main__

\* Lines 100-105: open config.yaml, parse it, read the four fields.  Nothing
\* catches an exception here: it ends the process before line 107.
LoadConfig ==
  /\ pc = "config"
  /\ UNCHANGED earlier
  /\ IF ConfigError(cfgReadable, cfgFields)
       THEN /\ pc' = "crashed"
            /\ uncaught' = TRUE
            /\ failures' = failures \cup {"config"}
       ELSE /\ pc' = "construct"
            /\ UNCHANGED <<uncaught, failures>>
  /\ UNCHANGED <<inputs, loader, data, session, opened, loopState, txState,
                 history, nodes, log, closeCalled>>

\* __init__: GraphDatabase.driver(...) returns and both attributes are set,
\* or it raises, the except clause prints and neither attribute is set.
Construct ==
  /\ pc = "construct"
  /\ UNCHANGED earlier
  /\ \E ok \in BOOLEAN :
       IF ok
         THEN /\ driverSet' = TRUE
              /\ filePathSet' = TRUE
              /\ log' = Append(log, "driver_ok")
              /\ UNCHANGED failures
         ELSE /\ log' = Append(log, "driver_failed")
              /\ failures' = failures \cup {"driver"}
              /\ UNCHANGED loader
  /\ pc' = "run"
  /\ UNCHANGED <<inputs, data, session, opened, loopState, txState, history,
                 nodes, closeCalled, uncaught>>

\* ------------------------------------------------------- load_data, run

\* load_data handing back the rows parsed before a ParserError.
LoadDataReturnsPartial(pathSet, src) == pathSet /\ src \in {"ok", "unparsable"}

\* run() without the test of line 93: load_csv_to_neo4j is entered whatever
\* load_data returned.
LoadDataReturnsAlways(pathSet, src) == TRUE

\* load_data delivers the DataFrame: self.FILE_PATH exists and pd.read_csv
\* returns.  In every other case an except clause prints and None is returned.
LoadDataReturns(pathSet, src) == pathSet /\ src = "ok"

\* The message load_data prints.  Without self.FILE_PATH the attribute read
\* raises AttributeError before the file is touched, and the last except
\* clause takes it.
LoadDataMessage(pathSet, src) ==
  IF ~pathSet THEN "unexpected_error"
  ELSE IF src = "ok" THEN "csv_ok"
  ELSE IF src = "missing" THEN "file_not_found"
  ELSE IF src = "unparsable" THEN "parse_error"
  ELSE "unexpected_error"

\* run(), lines 92-93: data = self.load_data(); load_csv_to_neo4j is entered
\* only if data is not None.  An invocation after the first finds the file
\* of the first.
RunLoadData ==
  /\ pc = "run"
  /\ UNCHANGED earlier
  /\ \E src \in (IF filePathSet THEN SourceStates ELSE {"unread"}) :
     \E rows \in (IF src \notin {"ok", "unparsable"} THEN {<<>>}
                  ELSE IF runNo > 0 THEN {fileRows}
                  ELSE SeqUpTo(RowValues, MaxRows)) :
       /\ source' = src
       /\ fileRows' = rows
       /\ log' = Append(log, LoadDataMessage(filePathSet, src))
       /\ IF LoadDataReturns(filePathSet, src)
            THEN /\ data' = <<"df", rows>>
                 /\ pc' = "open"
                 /\ UNCHANGED failures
            ELSE /\ data' = <<"None">>
                 /\ pc' = "close"
                 /\ failures' = failures \cup {"source"}
  /\ UNCHANGED <<cfgReadable, cfgFields, batch_size, loader, session, opened,
                 loopState, txState, history, nodes, closeCalled, uncaught>>

\* ------------------------------------------------------ load_csv_to_neo4j

\* The session opened without `with`: an exception leaves it open.
LoadFailedLeak ==
  /\ session' = session
  /\ log' = Append(log, "load_failed")
  /\ pc' = "close"

\* The except clause of line 74 with `pass` for a body.
LoadFailedSilent ==
  /\ session' = "closed"
  /\ log' = log
  /\ pc' = "close"

\* Lines 74-75 and the exit of the `with` block by an exception raised inside
\* it: the session is closed, the failure is printed, the method returns.
LoadFailed ==
  /\ session' = "closed"
  /\ log' = Append(log, "load_failed")
  /\ pc' = "close"

\* driver.session() called again after it raised: the failure is printed and
\* the load goes on with the second session.
OpenSessionRetried ==
  /\ pc = "open"
  /\ UNCHANGED earlier
  /\ \E ok \in BOOLEAN :
       /\ session' = "open"
       /\ opened' = opened + 1
       /\ batch' = <<>>
       /\ pc' = "loop"
       /\ IF ok
            THEN UNCHANGED <<log, failures>>
            ELSE /\ log' = Append(log, "load_failed")
                 /\ failures' = failures \cup {"session"}
  /\ UNCHANGED <<inputs, loader, data, idx, txState, history, nodes,
                 closeCalled, uncaught>>

\* Lines 64-65: driver.session() returns a session and batch = [], or it
\* raises and the except clause of line 74 prints.
OpenSession ==
  /\ pc = "open"
  /\ UNCHANGED earlier
  /\ \E ok \in BOOLEAN :
       IF ok
         THEN /\ session' = "open"
              /\ opened' = opened + 1
              /\ batch' = <<>>
              /\ pc' = "loop"
              /\ UNCHANGED <<log, failures>>
         ELSE /\ log' = Append(log, "load_failed")
              /\ failures' = failures \cup {"session"}
              /\ pc' = "close"
              /\ UNCHANGED <<session, opened, batch>>
  /\ UNCHANGED <<inputs, loader, data, idx, txState, history, nodes,
                 closeCalled, uncaught>>

\* Lines 66-67: the next row of data.iterrows() is appended as a dict.
ReadRow ==
  /\ pc = "loop"
  /\ UNCHANGED earlier
  /\ idx < Len(data[2])
  /\ batch' = Append(batch, to_dict(Columns, data[2][idx + 1]))
  /\ idx' = idx + 1
  /\ pc' = "check"
  /\ UNCHANGED <<inputs, loader, data, session, opened, txState, history,
                 nodes, log, failures, closeCalled, uncaught>>

\* A loop that does not end when the rows are exhausted (while True without
\* a break): the program spins at the loop head.
LoopExitSpin ==
  /\ pc = "loop"
  /\ idx = Len(data[2])
  /\ UNCHANGED vars

\* Line 66: data.iterrows() is exhausted, the loop ends.
LoopExit ==
  /\ pc = "loop"
  /\ UNCHANGED earlier
  /\ idx = Len(data[2])
  /\ pc' = "tail"
  /\ UNCHANGED <<inputs, loader, data, session, opened, loopState, txState,
                 history, nodes, log, failures, closeCalled, uncaught>>

\* session.write_transaction(self.create_product_nodes, batch), called from
\* `from`: the transaction begins and the transaction function is entered, or
\* beginning it raises into the except clause of line 74.
IssueWrite(from) ==
  /\ flushes' = Append(flushes, batch)
  /\ persisted' = Append(persisted, <<>>)
  /\ \E begun \in BOOLEAN :
       IF begun
         THEN /\ pc' = "txfn"
              /\ ret' = from
              /\ txPending' = <<>>
              /\ txFailed' = FALSE
              /\ txOpen' = TRUE
              /\ UNCHANGED <<session, log, failures, raisedAt>>
         ELSE /\ LoadFailed
              /\ raisedAt' = Len(flushes')
              /\ failures' = failures \cup {"begin"}
              /\ UNCHANGED txState
  /\ UNCHANGED cmdFailed

\* Lines 68-69: the flush test after the append.
CheckFlush ==
  /\ pc = "check"
  /\ UNCHANGED earlier
  /\ IF BatchFull(batch, batch_size)
       THEN IssueWrite("loop")
       ELSE /\ pc' = "loop"
            /\ UNCHANGED <<session, txState, history, log, failures>>
  /\ UNCHANGED <<inputs, loader, data, opened, loopState, nodes, closeCalled,
                 uncaught>>

\* Lines 71-72: the final, possibly short, batch.
TailFlush ==
  /\ pc = "tail"
  /\ UNCHANGED earlier
  /\ IF BatchPending(batch)
       THEN IssueWrite("tail")
       ELSE /\ pc' = "finish"
            /\ UNCHANGED <<session, txState, history, log, failures>>
  /\ UNCHANGED <<inputs, loader, data, opened, loopState, nodes, closeCalled,
                 uncaught>>

\* The outcomes of tx.run(query, products=products): the nodes are created in
\* the transaction; the call raises and the transaction is failed (the server
\* rejects the command, the connection is lost); or the call raises on the
\* client before anything is sent (a value the driver cannot encode) and the
\* transaction stays usable.
RunOutcomes == {"created", "server_error", "client_error"}

\* One CREATE per record, each in its own tx.run: an error part-way leaves
\* the records before it created in the transaction.
CreatedOneByOne(outcome, products) ==
  IF outcome = "created" THEN products
  ELSE IF outcome = "client_error" /\ products # <<>>
    THEN SubSeq(products, 1, Len(products) - 1)
  ELSE <<>>

\* Lines 48-52: the nodes the single UNWIND ... CREATE command leaves in the
\* transaction: one per product, or none at all when the command raises.
Created(outcome, products) == IF outcome = "created" THEN products ELSE <<>>

\* create_product_nodes, lines 47-54, run by write_transaction.  The except
\* clause of lines 53-54 takes every exception of tx.run and only prints: the
\* function returns to write_transaction in every case, which then commits.
CreateProductNodes ==
  /\ pc = "txfn"
  /\ UNCHANGED earlier
  /\ \E outcome \in RunOutcomes :
       /\ txPending' = Created(outcome, flushes[Len(flushes)])
       /\ txFailed' = (outcome = "server_error")
       /\ IF outcome = "created"
            THEN UNCHANGED <<log, failures, cmdFailed>>
            ELSE /\ log' = Append(log, "create_failed")
                 /\ failures' = failures \cup {"cmd"}
                 /\ cmdFailed' = cmdFailed \cup {Len(flushes)}
  /\ pc' = "commit"
  /\ UNCHANGED <<inputs, loader, data, session, opened, loopState, ret, txOpen,
                 flushes, raisedAt, persisted, nodes, closeCalled, uncaught>>

\* Line 70 left out: the accumulator is never reset.
AfterFlushKeep(b, from) == b

\* Line 70 after the flush of the loop, nothing after the final flush: the
\* accumulator once write_transaction has returned to `from`.
AfterFlush(b, from) == IF from = "loop" THEN <<>> ELSE b

\* The command written as MERGE (p:Product {...}): a record equal to a node
\* of the store creates nothing.
CommittedMerged(store, created) ==
  SetToBag(BagToSet(store) \cup {created[i] : i \in 1..Len(created)})

\* Line 50, CREATE (p:Product) SET p = product, once committed: every
\* created node is added to the store, whatever the store holds.
Committed(store, created) == store (+) BagOfSeq(created)

\* An explicit transaction (session.begin_transaction()) that the loop leaves
\* open when it goes on.
TxOpenOnReturnLeft == TRUE

\* session.write_transaction blocks: when it returns or raises, the
\* transaction it ran is over.
TxOpenOnReturn == FALSE

\* The end of write_transaction after the transaction function returned: the
\* commit.  A transaction the server failed cannot commit; any other commit
\* succeeds or raises; a raise reaches the except clause of line 74.  After a
\* commit the loop goes on with batch = [] (line 70), the final call goes on
\* to line 73.
Commit ==
  /\ pc = "commit"
  /\ UNCHANGED earlier
  /\ \E ok \in (IF txFailed THEN {FALSE} ELSE BOOLEAN) :
       IF ok
         THEN /\ nodes' = Committed(nodes, txPending)
              /\ persisted' = [persisted EXCEPT ![Len(flushes)] = txPending]
              /\ batch' = AfterFlush(batch, ret)
              /\ pc' = IF ret = "loop" THEN "loop" ELSE "finish"
              /\ UNCHANGED <<session, log, failures, raisedAt>>
         ELSE /\ LoadFailed
              /\ raisedAt' = Len(flushes)
              /\ failures' = failures \cup {"commit"}
              /\ UNCHANGED <<nodes, batch, persisted>>
  /\ txPending' = <<>>
  /\ txOpen' = TxOpenOnReturn
  /\ UNCHANGED <<inputs, loader, data, opened, idx, ret, txFailed, flushes,
                 cmdFailed, closeCalled, uncaught>>

\* Line 73 and the normal exit of the `with` block.
Finish ==
  /\ pc = "finish"
  /\ UNCHANGED earlier
  /\ log' = Append(log, "all_loaded")
  /\ session' = "closed"
  /\ pc' = "close"
  /\ UNCHANGED <<inputs, loader, data, opened, loopState, txState, history,
                 nodes, failures, closeCalled, uncaught>>

\* ------------------------------------------------------------------ close

\* close(), called on line 109 after run() returned: driver.close() returns,
\* or it raises (or self.driver does not exist) and the except clause prints.
Close ==
  /\ pc = "close"
  /\ UNCHANGED earlier
  /\ closeCalled' = TRUE
  /\ \E ok \in (IF driverSet THEN BOOLEAN ELSE {FALSE}) :
       IF ok
         THEN /\ log' = Append(log, "close_ok")
              /\ UNCHANGED failures
         ELSE /\ log' = Append(log, "close_failed")
              /\ failures' = IF driverSet THEN failures \cup {"close"}
                                          ELSE failures
  /\ pc' = "done"
  /\ UNCHANGED <<inputs, loader, data, session, opened, loopState, txState,
                 history, nodes, uncaught>>

\* ------------------------------------------------------------- rerun

\* The program is invoked again (line 99) after an invocation that ended
\* without failure, with the same configuration and file, against the same
\* store: the process starts afresh, the store keeps its nodes.
Rerun ==
  /\ pc = "done"
  /\ failures = {}
  /\ runNo + 1 < MaxRuns
  /\ runNo' = runNo + 1
  /\ prior' = nodes
  /\ pc' = "config"
  /\ source' = "unread"
  /\ driverSet' = FALSE
  /\ filePathSet' = FALSE
  /\ data' = <<"None">>
  /\ session' = "none"
  /\ opened' = 0
  /\ idx' = 0
  /\ batch' = <<>>
  /\ ret' = "none"
  /\ flushes' = <<>>
  /\ cmdFailed' = {}
  /\ raisedAt' = 0
  /\ persisted' = <<>>
  /\ log' = <<>>
  /\ closeCalled' = FALSE
  /\ UNCHANGED <<cfgReadable, cfgFields, fileRows, batch_size, txPending,
                 txFailed, txOpen, nodes, failures, uncaught>>

\* -------------------------------------------------------- specification

Next ==
  \/ LoadConfig
  \/ Construct
  \/ RunLoadData
  \/ OpenSession
  \/ ReadRow
  \/ LoopExit
  \/ CheckFlush
  \/ TailFlush
  \/ CreateProductNodes
  \/ Commit
  \/ Finish
  \/ Close

Spec == Init /\ [][Next]_vars

\* Invocations repeated against the same store.
NextRerun == Next \/ Rerun

SpecRerun == Init /\ [][NextRerun]_vars

\* One invocation that keeps running: the interpreter executes the next
\* statement and every external call returns or raises.
FairSpec == Spec /\ WF_vars(Next)

\* ------------------------------------------------------------- the claims

\* The invocation has ended: close() returned.
Done == pc = "done"

\* No external call has raised.
FailureFree == failures = {}

\* The Records of the source, in row order, written out column by column.
SourceRecords ==
  [i \in 1..Len(fileRows) |-> [id |-> fileRows[i][1], qty |-> fileRows[i][2]]]

\* C1: a failure-free run over R rows with a positive batch size B issues
\* exactly ceil(R / B) write transactions, of sizes B, ..., B and then
\* R mod B when that is not zero.
C1_FlushCountAndSizes ==
  (Done /\ FailureFree /\ batch_size > 0) =>
    LET R == Len(fileRows)
        B == batch_size
    IN /\ Len(flushes) = (R + B - 1) \div B
       /\ \A i \in 1..Len(flushes) :
            Len(flushes[i]) = IF i <= R \div B THEN B ELSE R % B

\* C1 witness: 5 rows in batches of 2 were flushed as 2, 2, 1.
C1_Witness ==
  /\ Done /\ FailureFree
  /\ Len(fileRows) = 5 /\ batch_size = 2
  /\ Len(flushes) = 3
  /\ Len(flushes[3]) = 1

\* C2: in a failure-free run the flushed payloads, concatenated in flush
\* order, are the source rows in source order, and the store holds exactly
\* one node per source row.
C2_FlushesAreSourceInOrder ==
  (Done /\ FailureFree) =>
    /\ Flatten(flushes) = SourceRecords
    /\ Flatten(persisted) = SourceRecords
    /\ nodes = BagOfSeq(SourceRecords)

\* C2 witness: a run of several batches over rows that differ from their
\* neighbours, so that a reordering would show.
C2_Witness ==
  /\ Done /\ FailureFree
  /\ Len(flushes) >= 2
  /\ Len(fileRows) >= 3
  /\ fileRows[1] # fileRows[2] /\ fileRows[2] = fileRows[3]

\* The write transaction of flush k is over: write_transaction has returned
\* or raised.
TxOver(k) == k < Len(flushes) \/ pc \notin {"txfn", "commit"}

\* Flush k failed: its bulk-create command raised, or its transaction did.
FlushFailed(k) == k \in cmdFailed \/ raisedAt = k

\* A failure of the load has been printed.
FailureReported ==
  \E i \in 1..Len(log) : log[i] \in {"load_failed", "create_failed"}

\* C3: once the write transaction of batch k has failed (the bulk-create
\* command or the transaction itself), batch k is not issued again, no batch
\* after k is issued, batches 1..k-1 stay committed, no node of batch k
\* persists, and a failure is reported.
C3_FailedBatchEndsTheLoad ==
  \A k \in 1..Len(flushes) :
    (FlushFailed(k) /\ TxOver(k)) =>
      /\ Len(flushes) = k
      /\ persisted[k] = <<>>
      /\ \A j \in 1..(k - 1) : persisted[j] = flushes[j]
      /\ FailureReported

\* C4: when the bulk-create command of flush k fails, write_transaction
\* raises to load_csv_to_neo4j for that flush and no node of the batch
\* persists.
C4_CommandFailureReachesLoader ==
  \A k \in cmdFailed :
    TxOver(k) => (raisedAt = k /\ persisted[k] = <<>>)

\* C5: driver.session() returns at most once; a write transaction is issued
\* or in flight only on that one open session; when the invocation has ended
\* no session is open, and where the loader was constructed close() was called
\* after run() and its message is the last one printed.
C5_OneSessionAlwaysClosed ==
  /\ opened <= 1
  /\ (flushes # <<>>) => opened = 1
  /\ (pc \in {"loop", "check", "tail", "txfn", "commit", "finish"}) =>
       (session = "open" /\ opened = 1)
  /\ (pc \in {"done", "crashed"}) => session # "open"
  /\ Done => /\ closeCalled
             /\ log[Len(log)] \in {"close_ok", "close_failed"}
  /\ closeCalled => Done

\* C5 witness: a run whose second write transaction raised has ended with the
\* session closed and close() called.
C5_Witness ==
  /\ Done /\ closeCalled
  /\ opened = 1 /\ session = "closed"
  /\ raisedAt = 2

\* load_data has printed one of its failure messages.
SourceFailureReported ==
  \E i \in 1..Len(log) :
    log[i] \in {"file_not_found", "parse_error", "unexpected_error"}

\* C6: when load_data cannot produce the source (no file, a parse error, any
\* other error), no write transaction is issued, no node is created, the
\* source-read failure is reported, and the invocation ends with no session
\* open and close() called.
C6_UnreadableSourceLoadsNothing ==
  (pc \notin {"config", "construct", "run"}
     /\ (source \in {"missing", "unparsable", "other"} \/ "source" \in failures)) =>
    /\ flushes = <<>>
    /\ nodes = EmptyBag
    /\ SourceFailureReported
    /\ data = <<"None">>
    /\ session # "open"
    /\ pc \in {"close", "done"}
    /\ Done => closeCalled

\* C6 witness: an unparsable file that holds rows ended the run with nothing
\* flushed and close() called.
C6_Witness ==
  /\ Done /\ closeCalled
  /\ source = "unparsable" /\ Len(fileRows) = 2
  /\ flushes = <<>> /\ nodes = EmptyBag

\* C7: with a positive batch size B the accumulator never holds more than B
\* records, and holds fewer than B whenever the next row is about to be read.
C7_AccumulatorBounded ==
  (batch_size > 0) =>
    /\ Len(batch) <= batch_size
    /\ (pc = "loop") => Len(batch) < batch_size

\* C7 witness: the accumulator has reached B = 2 a second time and its write
\* transaction is in flight.
C7_Witness ==
  /\ pc = "txfn"
  /\ batch_size = 2 /\ Len(batch) = 2
  /\ Len(flushes) = 2

\* C8: no write transaction is issued with an empty batch; a readable source
\* with zero data rows gives, absent any failure, zero flushes and zero nodes,
\* the success message, a closed session and close() called.
C8_NoEmptyFlush ==
  /\ \A i \in 1..Len(flushes) : flushes[i] # <<>>
  /\ (Done /\ FailureFree /\ fileRows = <<>>) =>
       /\ flushes = <<>>
       /\ nodes = EmptyBag
       /\ \E i \in 1..Len(log) : log[i] = "all_loaded"
       /\ session = "closed"
       /\ closeCalled

\* C8 witness: a header-only file was loaded without failure.
C8_Witness ==
  /\ Done /\ FailureFree
  /\ source = "ok" /\ fileRows = <<>>
  /\ flushes = <<>> /\ session = "closed"

\* Message m has been printed.
Printed(m) == \E i \in 1..Len(log) : log[i] = m

\* The message the catching except clause prints for an external call that
\* raised.
Logged(f) ==
  CASE f = "driver" -> Printed("driver_failed")
    [] f = "source" -> SourceFailureReported
    [] f \in {"session", "begin", "commit"} -> Printed("load_failed")
    [] f = "cmd" -> Printed("create_failed")
    [] f = "close" -> Printed("close_failed")
    [] OTHER -> FALSE

\* The configuration lacks what lines 100-105 read.
BadConfig == ~cfgReadable \/ cfgFields # RequiredFields

\* C9 as stated: every error, a configuration error included, is caught
\* where it occurs and logged, and none is raised out of the process.
C9_EveryErrorCaught ==
  /\ ~uncaught
  /\ \A f \in failures : Logged(f)

\* C9 as amended: every source-read, connection and batch-write error is
\* caught where it occurs and logged, load_data returns None, and the
\* invocation goes on to close(); a configuration error is caught nowhere: it
\* is raised out of the process, before anything is printed.
C9_NonConfigErrorsCaught ==
  /\ \A f \in failures \ {"config"} : Logged(f)
  /\ ("source" \in failures) => data = <<"None">>
  /\ uncaught <=> (BadConfig /\ pc # "config")
  /\ uncaught => (pc = "crashed" /\ log = <<>>)
  /\ (pc = "crashed") => uncaught

\* C9 witness: a run in which the source was read, a commit raised and
\* close() raised has ended with each of them logged and nothing uncaught.
C9_Witness ==
  /\ Done /\ ~uncaught
  /\ {"commit", "close"} \subseteq failures
  /\ Printed("load_failed") /\ Printed("close_failed")

\* C10: with a required field missing or the configuration unreadable the
\* run fails before any connection attempt: the driver is never constructed,
\* no session is opened, no write transaction is issued.
C10_BadConfigFailsBeforeConnecting ==
  BadConfig =>
    /\ pc \in {"config", "crashed"}
    /\ ~driverSet
    /\ ~Printed("driver_ok") /\ ~Printed("driver_failed")
    /\ opened = 0 /\ session = "none"
    /\ flushes = <<>>

\* C10 witness: a readable configuration without FILE_PATH ended the process
\* at the reads of lines 102-105.
C10_Witness ==
  /\ pc = "crashed"
  /\ cfgReadable /\ cfgFields = RequiredFields \ {"FILE_PATH"}
  /\ ~driverSet

\* C11: when the store is unreachable or rejects the credentials (the driver
\* construction or the session open raises), no write transaction is issued
\* and no node is created, whatever the source holds.
C11_UnreachableStoreLoadsNothing ==
  ("driver" \in failures \/ "session" \in failures) =>
    /\ flushes = <<>>
    /\ persisted = <<>>
    /\ nodes = prior
    /\ ~txOpen
    /\ ~Printed("all_loaded")

\* C11 witness: a readable source of 3 rows, the session open raised, the
\* invocation ended with nothing flushed.
C11_Witness ==
  /\ Done
  /\ "session" \in failures
  /\ source = "ok" /\ Len(fileRows) = 3
  /\ flushes = <<>> /\ nodes = EmptyBag

\* C12: every batch is committed all or nothing: of each flush either every
\* record is a node or none is, and the store holds exactly the records of
\* the whole batches committed (besides what it held before).
C12_BatchesAllOrNothing ==
  /\ Len(persisted) = Len(flushes)
  /\ \A k \in 1..Len(flushes) : persisted[k] \in {<<>>, flushes[k]}
  /\ nodes = prior (+) BagOfSeq(Flatten(persisted))

\* C12 witness: of two batches of 2 records the first failed in its
\* bulk-create command and left no node, the second is committed whole.
C12_Witness ==
  /\ Len(flushes) = 2
  /\ Len(flushes[1]) = 2 /\ 1 \in cmdFailed /\ persisted[1] = <<>>
  /\ persisted[2] = flushes[2] /\ Len(persisted[2]) = 2

\* C13: the load is not idempotent: every failure-free run over the source
\* of R rows adds R nodes to what the store held, so the second of two
\* consecutive failure-free runs leaves 2 * R nodes, each record twice; no
\* node the store held is ever merged with, updated or deleted.
C13_RerunDuplicatesNodes ==
  /\ prior \sqsubseteq nodes
  /\ (Done /\ FailureFree) =>
       /\ nodes = prior (+) BagOfSeq(SourceRecords)
       /\ BagCardinality(nodes) = (runNo + 1) * Len(fileRows)
  /\ (Done /\ FailureFree /\ runNo = 1) =>
       nodes = BagOfSeq(SourceRecords) (+) BagOfSeq(SourceRecords)

\* C13 witness: the second failure-free run over 3 rows, two of them equal,
\* has ended with 6 nodes.
C13_Witness ==
  /\ Done /\ FailureFree
  /\ runNo = 1
  /\ Len(fileRows) = 3 /\ fileRows[1] = fileRows[2] /\ fileRows[2] # fileRows[3]
  /\ BagCardinality(nodes) = 6

\* The property keys of a record or node.
Keys(record) == DOMAIN record

\* C14: every record flushed, and every node created, carries exactly the
\* columns of its source row as keys, each with the row's value: the i-th
\* record flushed is the i-th row, no key added, removed or renamed.
C14_NodeKeysAreRowColumns ==
  LET flushed == Flatten(flushes)
      stored == Flatten(persisted)
  IN /\ Len(flushed) <= Len(fileRows)
     /\ \A i \in 1..Len(flushed) :
          /\ Keys(flushed[i]) = {"id", "qty"}
          /\ flushed[i]["id"] = fileRows[i][1]
          /\ flushed[i]["qty"] = fileRows[i][2]
     /\ \A i \in 1..Len(stored) : Keys(stored[i]) = {"id", "qty"}
     /\ \A n \in BagToSet(nodes) : Keys(n) = {"id", "qty"}

\* C14 witness: two different rows were flushed in one batch and are nodes.
C14_Witness ==
  /\ Len(flushes) = 1 /\ Len(flushes[1]) = 2
  /\ flushes[1][1] # flushes[1][2]
  /\ persisted[1] = flushes[1]
  /\ BagCardinality(nodes) = 2

\* C15: flushes are strictly sequential: a write transaction is in flight
\* only while load_csv_to_neo4j waits inside write_transaction for the last
\* flush issued, and while one is in flight no further write transaction is
\* issued and no source row is consumed into the accumulator.
C15_FlushesSequential ==
  /\ [](txOpen => (pc \in {"txfn", "commit"} /\ flushes # <<>>))
  /\ [][txOpen => (flushes' = flushes /\ idx' = idx /\ Len(batch') <= Len(batch))]_vars

\* C15 witness: the second write transaction is in flight with rows of the
\* source still unread.
C15_Witness ==
  /\ txOpen /\ pc = "txfn"
  /\ Len(flushes) = 2
  /\ idx < Len(fileRows)

\* C16: whenever the success message is printed, every row of the source is
\* a node: no bulk-create command of the run failed.
C16_SuccessMeansAllLoaded ==
  Printed("all_loaded") =>
    /\ cmdFailed = {}
    /\ nodes = prior (+) BagOfSeq(SourceRecords)

\* load_csv_to_neo4j has been entered.
LoaderEntered ==
  \/ pc \in {"open", "loop", "check", "tail", "txfn", "commit", "finish"}
  \/ session # "none"
  \/ opened > 0
  \/ Printed("load_failed") \/ Printed("all_loaded")

\* C17: run() reads the whole source before any session is opened:
\* load_csv_to_neo4j is entered only after load_data has returned the
\* DataFrame, and after a source-read failure it is never entered and no
\* session is ever opened.
C17_SourceReadBeforeSession ==
  /\ LoaderEntered =>
       /\ source = "ok"
       /\ data = <<"df", fileRows>>
       /\ Printed("csv_ok")
       /\ "source" \notin failures
  /\ ("source" \in failures) =>
       /\ ~LoaderEntered
       /\ pc \in {"close", "done"}
  /\ (pc = "run") => (source = "unread" /\ session = "none" /\ opened = 0)

\* C17 witness: the file was missing and the invocation has ended without a
\* session.
C17_Witness ==
  /\ Done
  /\ source = "missing" /\ "source" \in failures
  /\ session = "none" /\ opened = 0
  /\ log = <<"driver_ok", "file_not_found", "close_ok">>

\* The invocation has reached its final state: close() has returned or, for
\* a configuration that cannot be read, the process has ended at lines
\* 100-105.
Terminated == IF BadConfig THEN pc = "crashed" ELSE Done

\* C18: for every source and every pattern of failures the invocation
\* terminates: run() and close() return and the final state is reached; no
\* step is repeated: every step moves the program on, the session is opened
\* at most once, close() is called only at the end, and each write
\* transaction takes at least one new row (none is a retry).
C18_InvocationTerminates ==
  /\ <>Terminated
  /\ [][pc' # pc /\ idx' >= idx /\ Len(flushes') >= Len(flushes)]_vars
  /\ [](opened <= 1 /\ Len(flushes) <= idx /\ (closeCalled => Done))

\* C18 witness: an invocation in which a bulk-create command, a commit and
\* close() all failed has ended.
C18_Witness ==
  /\ Done /\ closeCalled
  /\ {"cmd", "commit", "close"} \subseteq failures
  /\ Len(flushes) >= 2

\* C19: batch_size is not validated, and with batch_size <= 0 the load goes
\* as with batch_size = 1: the i-th write transaction carries the i-th row
\* alone, the accumulator never holds more than one record, and a
\* failure-free run ends with R flushes and the success message, no error
\* and no empty flush.
C19_NonPositiveBatchSizeFlushesEachRow ==
  (batch_size <= 1) =>
    /\ Len(batch) <= 1
    /\ Len(flushes) <= Len(fileRows)
    /\ \A i \in 1..Len(flushes) : flushes[i] = <<SourceRecords[i]>>
    /\ (Done /\ FailureFree) =>
         /\ Len(flushes) = Len(fileRows)
         /\ Printed("all_loaded")
         /\ ~Printed("load_failed")
         /\ ~uncaught

\* C19 witness: with batch_size = -1 a failure-free run over 3 rows has
\* ended with 3 flushes of one record each.
C19_Witness ==
  /\ Done /\ FailureFree
  /\ batch_size = 0 - 1
  /\ Len(fileRows) = 3 /\ fileRows[1] # fileRows[2]
  /\ Len(flushes) = 3
  /\ \A i \in 1..3 : Len(flushes[i]) = 1

====
